---- MODULE Spec2Model ----
(***************************************************************************)
(* Share-token issuance in the notely entry routes.                        *)
(*                                                                         *)
(* The store is the Prisma `entry` table.  Every `await` of a handler is   *)
(* a point where another request may run, so a handler is a sequence of    *)
(* atomic steps, each ending in one store operation:                       *)
(*   server/src/routes/entries.ts  POST /, PATCH /:id, PATCH /restore/:id, *)
(*                                 DELETE /:id, DELETE /permanent/:id,     *)
(*                                 GET /public/entries/:id                 *)
(*   server/src/routes/notes.ts    POST /generate, PATCH /:id              *)
(* Title, synopsis, content and pinned are carried through the handlers    *)
(* untouched by the share-token logic and are not part of the state.       *)
(***************************************************************************)
EXTENDS Integers, FiniteSets, Sequences, TLC

\* ---------------------------------------------------------------- bounds
NumEntries == 2
NumTokens == 2
NumReq == 2
NumUsers == 2
MaxRequests == 3

\* ------------------------------------------------------ program constants
MAX_ATTEMPTS == 5
Null == 0

EntryIds == 1..NumEntries
Tokens == 1..NumTokens
Reqs == 1..NumReq
Users == 1..NumUsers

Kinds == {"entriesPost", "notesGenerate", "entriesPatch", "notesPatch",
          "restore", "softDelete", "permanentDelete"}
Tri == {"undef", "true", "false"}
Cats == {"undef", "valid", "invalid"}

VARIABLES entries, nextId, req, started, pub, bookmarks, resp

vars == <<entries, nextId, req, started, pub, bookmarks, resp>>

\* ------------------------------------------------------------- the store
NoEntry == [exists |-> FALSE, userId |-> 0, isDeleted |-> FALSE,
            isPublic |-> FALSE, publicShareId |-> Null]

IdleReq == [pc |-> "idle", kind |-> "none", userId |-> 0, id |-> 0,
            isPublic |-> "undef", cat |-> "undef", existingShare |-> Null,
            attempts |-> 0, probes |-> 0, candidate |-> Null,
            conflict |-> FALSE, priorConflicts |-> TRUE,
            publicShareId |-> Null, status |-> 0, err |-> "none",
            errorBody |-> "", wrote |-> FALSE]

NoPub == [seg |-> "none", n |-> 0, status |-> 0, entry |-> 0]

NoResp == [route |-> "none", userId |-> 0, status |-> 0, entries |-> {}]

FindLiveByShareId(store, t) ==
    {e \in EntryIds : /\ store[e].exists /\ ~store[e].isDeleted
                      /\ store[e].publicShareId = t}

FindAnyShareId(store, t) ==
    {e \in EntryIds : store[e].exists /\ store[e].publicShareId # Null}

\* prisma.entry.findUnique({ where: { publicShareId: candidate } })
FindByShareId(store, t) ==
    {e \in EntryIds : store[e].exists /\ store[e].publicShareId = t}

FindFirstAnyOwner(store, id, userId) ==
    id \in EntryIds /\ store[id].exists

\* prisma.entry.findFirst({ where: { id, userId } })
FindFirst(store, id, userId) ==
    id \in EntryIds /\ store[id].exists /\ store[id].userId = userId

UniqueNotEnforced(store, e, t) == FALSE

\* The unique index on Entry.publicShareId: a create or update that would
\* leave two rows with the same non-null token is rejected by the store.
UniqueViolation(store, e, t) ==
    t # Null /\ \E o \in EntryIds \ {e} :
                   store[o].exists /\ store[o].publicShareId = t

Init ==
    /\ entries = [e \in EntryIds |-> NoEntry]
    /\ nextId = 1
    /\ req = [r \in Reqs |-> IdleReq]
    /\ started = 0
    /\ pub = NoPub
    /\ bookmarks = {}
    /\ resp = NoResp

\* At most NumReq requests are in flight at once and MaxRequests arrive in
\* all.  A new request takes the lowest slot whose handler has returned.
Free(r) == req[r].pc \in {"idle", "done"}

CanStart(r) ==
    /\ started < MaxRequests
    /\ Free(r)
    /\ \A q \in Reqs : q < r => ~Free(q)

\* new Error("Failed to generate a unique publicShareId after multiple
\* attempts."), and the messages of the errors other code throws.
ExhaustedMessage ==
    "Failed to generate a unique publicShareId after multiple attempts."

ThrownMessage(err) ==
    CASE err = "exhausted" -> ExhaustedMessage
      [] err = "unique" -> "Unique constraint failed on the fields: (publicShareId)"
      [] err = "store" -> "store error"
      [] err = "ai" -> "AI service error"
      [] OTHER -> ""

NotesCatchLeak(kind, thrown) == thrown

\* The catch blocks of notes.ts: console.error, then a fixed 500 body.
NotesCatch(kind, thrown) ==
    IF kind = "notesGenerate" THEN "Failed to generate or save note."
    ELSE "Failed to update note."

\* entries.ts hands the error to next(err); the application's error
\* middleware answers with a fixed internal-server-error body.
ErrorHandler(thrown) == "Internal Server Error"

\* The body of the 500 response to a request of this kind whose handler
\* threw err; "" when the handler did not throw.
ErrorBody(kind, err) ==
    IF err = "none" THEN ""
    ELSE IF kind \in {"notesGenerate", "notesPatch"}
         THEN NotesCatch(kind, ThrownMessage(err))
         ELSE ErrorHandler(ThrownMessage(err))

\* The response is sent and the handler's locals are gone: what stays is the
\* outcome and what the allocator did.
Finish(rec, status, err) ==
    [IdleReq EXCEPT !.pc = "done", !.kind = rec.kind, !.status = status,
                    !.err = err, !.errorBody = ErrorBody(rec.kind, err),
                    !.attempts = rec.attempts,
                    !.probes = rec.probes, !.candidate = rec.candidate,
                    !.conflict = rec.conflict,
                    !.priorConflicts = rec.priorConflicts,
                    !.wrote = rec.wrote]

\* Where a handler goes once its reads and checks are over: into the
\* allocator when it needs a token, otherwise straight to its write.
AfterChecks(rec, needsToken) ==
    [rec EXCEPT !.pc = IF needsToken THEN "alloc" ELSE "write"]


\* ---------------------------------------------------------- the allocator
LoopStopsEarly(attempts) == attempts < MAX_ATTEMPTS - 1

LoopOneMore(attempts) == attempts <= MAX_ATTEMPTS

\* while (attempts < MAX_ATTEMPTS)
LoopContinues(attempts) == attempts < MAX_ATTEMPTS

AcceptsConflict(conflict) == conflict

\* if (!conflict) return candidate
Accepts(conflict) == ~conflict

ProbeStoreReserve(store, c) ==
    [e \in EntryIds |->
        IF store[e].exists /\ store[e].publicShareId = Null
        THEN [store[e] EXCEPT !.publicShareId = c] ELSE store[e]]

\* The store after findUnique has answered: the probe only reads.
ProbeStore(store, c) == store

OnExhaustedPersistNull(rec) ==
    [rec EXCEPT !.pc = "write", !.publicShareId = Null]

OnExhaustedRetry(rec) ==
    [rec EXCEPT !.attempts = 0, !.probes = 0, !.candidate = Null,
                !.conflict = FALSE, !.priorConflicts = TRUE]

\* throw new Error("Failed to generate a unique publicShareId ..."), caught
\* by the handler's catch block: next(err) or res.status(500).
OnExhausted(rec) == Finish(rec, 500, "exhausted")

\* One turn of generateUniqueShareId's loop: attempts++, a candidate is
\* drawn, the store is probed, and the candidate is returned, the loop
\* goes round again, or the loop ends and the function throws.
Probe(r) ==
    /\ req[r].pc = "alloc"
    /\ \E c \in Tokens :
         LET rec == req[r]
             conflict == FindByShareId(entries, c) # {}
             probed == [rec EXCEPT !.attempts = @ + 1,
                                   !.probes = @ + 1,
                                   !.candidate = c,
                                   !.conflict = conflict,
                                   !.priorConflicts =
                                       IF rec.probes = 0 THEN TRUE
                                       ELSE rec.priorConflicts /\ rec.conflict]
         IN /\ req' = [req EXCEPT ![r] =
                   IF Accepts(conflict)
                   THEN [probed EXCEPT !.pc = "write", !.publicShareId = c]
                   ELSE IF LoopContinues(probed.attempts)
                        THEN probed
                        ELSE OnExhausted(probed)]
            /\ entries' = ProbeStore(entries, c)
    /\ UNCHANGED <<nextId, started, pub, bookmarks, resp>>

\* ------------------------------------------------------ creating handlers
\* entries.ts POST /: the 400 and 404 checks, up to the allocator or create.
EntriesPostStart(r) ==
    /\ CanStart(r)
    /\ \E u \in Users, isPublic \in Tri, cat \in Cats :
         LET rec == [IdleReq EXCEPT !.kind = "entriesPost", !.userId = u,
                                    !.isPublic = isPublic, !.cat = cat]
         IN req' = [req EXCEPT ![r] =
                IF cat = "undef" THEN Finish(rec, 400, "none")
                ELSE IF cat = "invalid" THEN Finish(rec, 404, "none")
                ELSE AfterChecks(rec, isPublic = "true")]
    /\ started' = started + 1
    /\ UNCHANGED <<entries, nextId, pub, bookmarks, resp>>

\* notes.ts POST /generate: the 400 check and the AI call (which touches no
\* entry), up to the allocator or create.
NotesGenerateStart(r) ==
    /\ CanStart(r)
    /\ \E u \in Users, save \in BOOLEAN, isPublic \in Tri, cat \in Cats,
          aiOk \in BOOLEAN :
         LET rec == [IdleReq EXCEPT !.kind = "notesGenerate", !.userId = u,
                                    !.isPublic = isPublic, !.cat = cat]
         IN req' = [req EXCEPT ![r] =
                IF save /\ cat = "undef" THEN Finish(rec, 400, "none")
                ELSE IF ~aiOk THEN Finish(rec, 500, "ai")
                ELSE IF save THEN AfterChecks(rec, isPublic = "true")
                ELSE Finish(rec, 200, "none")]
    /\ started' = started + 1
    /\ UNCHANGED <<entries, nextId, pub, bookmarks, resp>>

\* prisma.entry.create of both creating handlers.  The publicShareId key is
\* present only when isPublic is truthy; isDeleted takes its default.
Create(r) ==
    /\ req[r].pc = "write"
    /\ req[r].kind \in {"entriesPost", "notesGenerate"}
    /\ nextId <= NumEntries
    /\ LET rec == req[r]
           token == IF rec.isPublic = "true" THEN rec.publicShareId ELSE Null
           row == [exists |-> TRUE, userId |-> rec.userId,
                   isDeleted |-> FALSE, isPublic |-> (rec.isPublic = "true"),
                   publicShareId |-> token]
           ok == IF rec.kind = "entriesPost" THEN 201 ELSE 200
       IN IF rec.cat = "invalid"
          THEN /\ req' = [req EXCEPT ![r] = Finish(rec, 500, "store")]
               /\ UNCHANGED <<entries, nextId>>
          ELSE IF UniqueViolation(entries, nextId, token)
          THEN /\ req' = [req EXCEPT ![r] = Finish(rec, 500, "unique")]
               /\ UNCHANGED <<entries, nextId>>
          ELSE /\ entries' = [entries EXCEPT ![nextId] = row]
               /\ nextId' = nextId + 1
               /\ req' = [req EXCEPT ![r] =
                      Finish([rec EXCEPT !.wrote = TRUE], ok, "none")]
    /\ UNCHANGED <<started, pub, bookmarks, resp>>

\* ------------------------------------------------------ updating handlers
\* entries.ts PATCH /:id asks for a token whenever the body says isPublic.
EntriesPatchNeedsToken(rec) == rec.isPublic = "true"

NotesPatchAlwaysNeedsToken(rec) == rec.isPublic = "true"

\* notes.ts PATCH /:id asks for one only if the entry it read had none.
NotesPatchNeedsToken(rec) ==
    rec.isPublic = "true" /\ rec.existingShare = Null

NeedsToken(rec) ==
    IF rec.kind = "entriesPatch" THEN EntriesPatchNeedsToken(rec)
    ELSE NotesPatchNeedsToken(rec)

\* After findFirst: the category check comes first when the body names one.
AfterRead(rec) ==
    IF rec.cat = "undef" THEN AfterChecks(rec, NeedsToken(rec))
    ELSE [rec EXCEPT !.pc = "category"]

\* entries.ts PATCH /:id: findFirst and the 404 for a missing or trashed entry.
EntriesPatchStart(r) ==
    /\ CanStart(r)
    /\ \E u \in Users, id \in EntryIds, isPublic \in Tri, cat \in Cats :
         LET rec == [IdleReq EXCEPT !.kind = "entriesPatch", !.userId = u,
                                    !.id = id, !.isPublic = isPublic,
                                    !.cat = cat,
                                    !.existingShare = entries[id].publicShareId]
         IN req' = [req EXCEPT ![r] =
                IF ~FindFirst(entries, id, u) \/ entries[id].isDeleted
                THEN Finish(rec, 404, "none")
                ELSE AfterRead(rec)]
    /\ started' = started + 1
    /\ UNCHANGED <<entries, nextId, pub, bookmarks, resp>>

\* notes.ts PATCH /:id: findFirst and the 404 for a missing entry only.
NotesPatchStart(r) ==
    /\ CanStart(r)
    /\ \E u \in Users, id \in EntryIds, isPublic \in Tri, cat \in Cats :
         LET rec == [IdleReq EXCEPT !.kind = "notesPatch", !.userId = u,
                                    !.id = id, !.isPublic = isPublic,
                                    !.cat = cat,
                                    !.existingShare = entries[id].publicShareId]
         IN req' = [req EXCEPT ![r] =
                IF ~FindFirst(entries, id, u)
                THEN Finish(rec, 404, "none")
                ELSE AfterRead(rec)]
    /\ started' = started + 1
    /\ UNCHANGED <<entries, nextId, pub, bookmarks, resp>>

\* prisma.category.findUnique of the two PATCH handlers.
CategoryCheck(r) ==
    /\ req[r].pc = "category"
    /\ req' = [req EXCEPT ![r] =
           IF req[r].cat = "invalid" THEN Finish(req[r], 404, "none")
           ELSE AfterChecks(req[r], NeedsToken(req[r]))]
    /\ UNCHANGED <<entries, nextId, started, pub, bookmarks, resp>>

EntriesPatchDataClear(rec, row) ==
    [row EXCEPT !.isPublic = (rec.isPublic = "true"),
                !.publicShareId = IF rec.isPublic = "true"
                                  THEN rec.publicShareId ELSE Null]

\* updateData of entries.ts PATCH /:id applied to the stored row.
EntriesPatchData(rec, row) ==
    IF rec.isPublic = "undef" THEN row
    ELSE [row EXCEPT !.isPublic = (rec.isPublic = "true"),
                     !.publicShareId = IF rec.isPublic = "true"
                                       THEN rec.publicShareId ELSE Null]

NotesPatchDataKeep(rec, row) ==
    IF rec.isPublic = "undef" THEN row
    ELSE [row EXCEPT !.isPublic = (rec.isPublic = "true"),
                     !.publicShareId =
                         IF rec.isPublic = "true" /\ rec.existingShare = Null
                         THEN rec.publicShareId ELSE @]

\* updateData of notes.ts PATCH /:id applied to the stored row: the token is
\* written only when one was generated or when isPublic is false.
NotesPatchData(rec, row) ==
    IF rec.isPublic = "undef" THEN row
    ELSE [row EXCEPT !.isPublic = (rec.isPublic = "true"),
                     !.publicShareId =
                         IF rec.isPublic = "false" THEN Null
                         ELSE IF rec.existingShare = Null
                              THEN rec.publicShareId ELSE @]

\* prisma.entry.update({ where: { id }, data: updateData }) of both PATCHes.
Update(r) ==
    /\ req[r].pc = "write"
    /\ req[r].kind \in {"entriesPatch", "notesPatch"}
    /\ LET rec == req[r]
           row == IF rec.kind = "entriesPatch"
                  THEN EntriesPatchData(rec, entries[rec.id])
                  ELSE NotesPatchData(rec, entries[rec.id])
       IN IF ~entries[rec.id].exists
          THEN /\ req' = [req EXCEPT ![r] = Finish(rec, 500, "store")]
               /\ UNCHANGED entries
          ELSE IF UniqueViolation(entries, rec.id, row.publicShareId)
          THEN /\ req' = [req EXCEPT ![r] = Finish(rec, 500, "unique")]
               /\ UNCHANGED entries
          ELSE /\ entries' = [entries EXCEPT ![rec.id] = row]
               /\ req' = [req EXCEPT ![r] =
                      Finish([rec EXCEPT !.wrote = TRUE], 200, "none")]
    /\ UNCHANGED <<nextId, started, pub, bookmarks, resp>>

\* ------------------------------------------------- trash, restore, delete
\* The 404 guard of each of the three handlers, on the row findFirst read.
TrashGuard(kind, row) ==
    CASE kind = "restore" -> row.isDeleted
      [] kind = "softDelete" -> ~row.isDeleted
      [] OTHER -> TRUE

\* PATCH /restore/:id, DELETE /:id, DELETE /permanent/:id up to their write.
TrashStart(r) ==
    /\ CanStart(r)
    /\ \E u \in Users, id \in EntryIds,
          kind \in {"restore", "softDelete", "permanentDelete"} :
         LET rec == [IdleReq EXCEPT !.kind = kind, !.userId = u, !.id = id]
         IN req' = [req EXCEPT ![r] =
                IF ~FindFirst(entries, id, u) \/ ~TrashGuard(kind, entries[id])
                THEN Finish(rec, 404, "none")
                ELSE [rec EXCEPT !.pc = "write"]]
    /\ started' = started + 1
    /\ UNCHANGED <<entries, nextId, pub, bookmarks, resp>>

\* The write of the three handlers: isDeleted set or cleared, or the row
\* deleted.  The store throws when the row is gone by then.
TrashWrite(r) ==
    /\ req[r].pc = "write"
    /\ req[r].kind \in {"restore", "softDelete", "permanentDelete"}
    /\ LET rec == req[r]
       IN IF ~entries[rec.id].exists
          THEN /\ req' = [req EXCEPT ![r] = Finish(rec, 500, "store")]
               /\ UNCHANGED entries
          ELSE /\ entries' = [entries EXCEPT ![rec.id] =
                      IF rec.kind = "permanentDelete" THEN NoEntry
                      ELSE [@ EXCEPT !.isDeleted = (rec.kind = "softDelete")]]
               /\ req' = [req EXCEPT ![r] =
                      Finish([rec EXCEPT !.wrote = TRUE], 200, "none")]
    /\ UNCHANGED <<nextId, started, pub, bookmarks, resp>>

\* ------------------------------------------------------- the public read
\* GET /public/entries/:id: findUnique({ where: { id } }) on the path
\* segment.  A segment is an entry id or a share token; the two are strings
\* of different shapes, so a token matches no row's id.
PublicLookup(store, seg, n) ==
    IF seg = "id" /\ n \in EntryIds /\ store[n].exists /\ store[n].isPublic
    THEN n ELSE 0

PublicRead ==
    /\ \E seg \in {"id", "token"} :
         \E n \in (IF seg = "id" THEN EntryIds ELSE Tokens) :
           LET e == PublicLookup(entries, seg, n)
           IN pub' = [seg |-> seg, n |-> n,
                      status |-> IF e = 0 THEN 404 ELSE 200, entry |-> e]
    /\ UNCHANGED <<entries, nextId, req, started, bookmarks, resp>>

\* ------------------------------------------- bookmarks, authenticated reads
\* POST /:id/bookmark: the upsert is keyed by the caller and the entry id
\* alone; the store throws when the id names no entry.
Bookmark ==
    /\ \E u \in Users, id \in EntryIds :
         bookmarks' = IF entries[id].exists
                      THEN bookmarks \cup {<<u, id>>} ELSE bookmarks
    /\ UNCHANGED <<entries, nextId, req, started, pub, resp>>

\* DELETE /:id/bookmark: the store throws when there is no such bookmark.
Unbookmark ==
    /\ \E u \in Users, id \in EntryIds :
         bookmarks' = bookmarks \ {<<u, id>>}
    /\ UNCHANGED <<entries, nextId, req, started, pub, resp>>

\* The rows the four reading routes select for user u.
ListRows(u) ==
    {e \in EntryIds : /\ entries[e].exists /\ entries[e].userId = u
                      /\ ~entries[e].isDeleted}

TrashRows(u) ==
    {e \in EntryIds : /\ entries[e].exists /\ entries[e].userId = u
                      /\ entries[e].isDeleted}

SingleRows(u, id) == ListRows(u) \cap {id}

BookmarkRows(u) ==
    {e \in EntryIds : <<u, e>> \in bookmarks /\ entries[e].exists}

\* GET /, GET /trash, GET /:id and GET /bookmarks/all: the entries sent back.
AuthRead ==
    /\ \E u \in Users, id \in EntryIds,
          route \in {"list", "trash", "single", "bookmarks"} :
         LET rows == CASE route = "list" -> ListRows(u)
                       [] route = "trash" -> TrashRows(u)
                       [] route = "single" -> SingleRows(u, id)
                       [] OTHER -> BookmarkRows(u)
         IN resp' = [route |-> route, userId |-> u,
                     status |-> IF route = "single" /\ rows = {}
                                THEN 404 ELSE 200,
                     entries |-> rows]
    /\ UNCHANGED <<entries, nextId, req, started, pub, bookmarks>>

\* -------------------------------------------------------- specification
Next ==
    \/ \E r \in Reqs : EntriesPostStart(r)
    \/ \E r \in Reqs : NotesGenerateStart(r)
    \/ \E r \in Reqs : EntriesPatchStart(r)
    \/ \E r \in Reqs : NotesPatchStart(r)
    \/ \E r \in Reqs : TrashStart(r)
    \/ \E r \in Reqs : CategoryCheck(r)
    \/ \E r \in Reqs : Probe(r)
    \/ \E r \in Reqs : Create(r)
    \/ \E r \in Reqs : Update(r)
    \/ \E r \in Reqs : TrashWrite(r)
    \/ PublicRead

Spec == Init /\ [][Next]_vars

\* The reading routes and the bookmarks, over entries made by POST /.
ReadNext ==
    \/ \E r \in Reqs : EntriesPostStart(r)
    \/ \E r \in Reqs : Probe(r)
    \/ \E r \in Reqs : Create(r)
    \/ Bookmark
    \/ Unbookmark
    \/ AuthRead

ReadSpec == Init /\ [][ReadNext]_vars

\* Every probe the allocator has issued is answered by the store.
LiveSpec == Spec /\ \A r \in Reqs : WF_vars(Probe(r))

\* ================================================================ claims
\* Helpers of the claims below.
Bound(e) == entries[e].exists /\ entries[e].publicShareId # Null

\* Request r takes a step.
Steps(r) == req'[r] # req[r]

\* Request r's allocator call ends in this step by returning a token.
Returns(r) == req[r].pc = "alloc" /\ req'[r].pc = "write"

\* All MAX_ATTEMPTS probes of the record's allocator call conflicted.
AllConflicted(x) ==
    x.probes >= MAX_ATTEMPTS /\ x.priorConflicts /\ x.conflict

\* Request r's PATCH commits in this step (either PATCH route).
Commits(r) ==
    /\ req[r].pc = "write"
    /\ req[r].kind \in {"entriesPatch", "notesPatch"}
    /\ req'[r].pc = "done" /\ req'[r].status = 200

\* C1: no two distinct entries hold the same non-null publicShareId.
C1_Uniqueness ==
    \A a, b \in EntryIds :
        (a # b /\ Bound(a) /\ Bound(b)) =>
            entries[a].publicShareId # entries[b].publicShareId

\* Two entries hold tokens and the store has turned a duplicate away.
C1_Witness ==
    /\ \E a, b \in EntryIds : a # b /\ Bound(a) /\ Bound(b)
    /\ \E r \in Reqs : req[r].err = "unique"

\* C2: every stored entry is public exactly when it holds a publicShareId.
C2_PublicIffToken ==
    \A e \in EntryIds :
        entries[e].exists =>
            (entries[e].isPublic <=> entries[e].publicShareId # Null)

\* C3: a successful update that sets isPublic = true on an entry that is
\* public leaves it with a publicShareId different from the one it held.
C3_ReshareIsFresh ==
    [][\A r \in Reqs :
         (Commits(r) /\ req[r].isPublic = "true"
            /\ entries[req[r].id].isPublic) =>
             entries'[req[r].id].publicShareId
                 # entries[req[r].id].publicShareId]_vars

\* C4: one allocator call performs at most MAX_ATTEMPTS existence probes.
C4_ProbesBounded ==
    \A r \in Reqs : req[r].probes <= MAX_ATTEMPTS

\* A call that was answered "free" on its last permitted probe.
C4_Witness ==
    \E r \in Reqs : req[r].pc = "write" /\ req[r].probes = MAX_ATTEMPTS

\* C5: a call whose MAX_ATTEMPTS probes all conflicted fails with the
\* exhaustion error after exactly MAX_ATTEMPTS probes and returns no token,
\* and a call that ends without returning a token ended that way.
C5_Exhaustion ==
    [][\A r \in Reqs :
         (req[r].pc = "alloc" /\ Steps(r)) =>
            /\ AllConflicted(req'[r]) =>
                  /\ req'[r].pc = "done" /\ req'[r].err = "exhausted"
                  /\ req'[r].status = 500
                  /\ req'[r].probes = MAX_ATTEMPTS
                  /\ req'[r].publicShareId = Null
            /\ req'[r].pc = "done" =>
                  /\ req'[r].err = "exhausted"
                  /\ AllConflicted(req'[r])
                  /\ req'[r].probes = MAX_ATTEMPTS]_vars

C5_Witness ==
    \E r \in Reqs :
        /\ req[r].pc = "done" /\ req[r].err = "exhausted"
        /\ req[r].probes = MAX_ATTEMPTS

\* C6: each probe step returns its candidate exactly when the store holds
\* no entry bound to it, so the token returned is the first free candidate
\* drawn and the probes performed number its position in the draw.
C6_FirstFree ==
    [][\A r \in Reqs :
         (req[r].pc = "alloc" /\ Steps(r)) =>
            LET c == req'[r].candidate
                free == FindByShareId(entries, c) = {}
            IN /\ req'[r].probes = req[r].probes + 1
               /\ req'[r].probes = 1 \/ (req[r].conflict /\ req'[r].priorConflicts)
               /\ free => /\ req'[r].pc = "write"
                          /\ req'[r].publicShareId = c
               /\ ~free => /\ req'[r].pc # "write"
                           /\ req'[r].publicShareId = Null]_vars

\* The first candidate conflicted and the second was returned.
C6_Witness ==
    \E r \in Reqs :
        /\ req[r].pc = "write" /\ req[r].probes = 2
        /\ req[r].publicShareId = req[r].candidate
        /\ req[r].priorConflicts /\ ~req[r].conflict

\* C7: a request whose allocator call was exhausted has written nothing to
\* the store.
C7_NothingCommitted ==
    \A r \in Reqs : AllConflicted(req[r]) => ~req[r].wrote

\* Two requests of different routes have both ended in exhaustion.
C7_Witness ==
    \E r, q \in Reqs :
        /\ req[r].err = "exhausted" /\ req[q].err = "exhausted"
        /\ req[r].kind = "entriesPatch" /\ req[q].kind = "notesGenerate"
        /\ ~req[r].wrote /\ ~req[q].wrote

\* C8: when the allocator returns a token, no stored entry is bound to that
\* token at that moment.
C8_FreeWhenReturned ==
    [][\A r \in Reqs :
         Returns(r) =>
            ~\E e \in EntryIds :
                /\ entries[e].exists
                /\ entries[e].publicShareId = req'[r].publicShareId]_vars

\* A token was returned while a trashed entry holds the other token.
C8_Witness ==
    \E r \in Reqs : \E e \in EntryIds :
        /\ req[r].pc = "write" /\ req[r].publicShareId # Null
        /\ Bound(e) /\ entries[e].isDeleted
        /\ entries[e].publicShareId # req[r].publicShareId

\* C9: no step of an allocator call changes the store.
C9_AllocatorReadOnly ==
    [][\A r \in Reqs :
         (req[r].pc = "alloc" /\ Steps(r)) =>
            entries' = entries /\ nextId' = nextId]_vars

\* An allocator call is under way, past a probe, with a private entry stored.
C9_Witness ==
    \E r \in Reqs : \E e \in EntryIds :
        /\ req[r].pc = "alloc" /\ req[r].probes >= 1
        /\ entries[e].exists /\ ~entries[e].isPublic

\* C10: once a public entry has been re-published, the link that returned
\* it to the last public reader before that no longer returns it.
C10_OldLinkDies ==
    [][\A r \in Reqs :
         (Commits(r) /\ req[r].isPublic = "true"
            /\ entries[req[r].id].isPublic
            /\ pub.status = 200 /\ pub.entry = req[r].id) =>
             PublicLookup(entries', pub.seg, pub.n) # req[r].id]_vars

\* A public read is answered in this step.
Reads == pub' # pub

\* C11: a public read whose path segment is the publicShareId of a public
\* entry returns that entry.
C11_TokenResolves ==
    [][\A e \in EntryIds :
         (Reads /\ pub'.seg = "token"
            /\ entries[e].exists /\ entries[e].isPublic
            /\ entries[e].publicShareId = pub'.n) =>
             pub'.status = 200 /\ pub'.entry = e]_vars

\* C12: the probe looks at the store alone.  When another request holds a
\* candidate as its returned, not yet written token and no stored entry is
\* bound to it, a call that probes the same candidate is given it too.
C12_ProbeIgnoresInFlight ==
    [][\A r, q \in Reqs :
         (r # q /\ req[r].pc = "alloc" /\ Steps(r)
            /\ req[q].pc = "write"
            /\ req[q].publicShareId = req'[r].candidate
            /\ ~\E e \in EntryIds : /\ entries[e].exists
                                    /\ entries[e].publicShareId
                                           = req'[r].candidate) =>
             /\ req'[r].pc = "write"
             /\ req'[r].publicShareId = req[q].publicShareId]_vars

\* Two allocator calls have returned the same token and neither caller has
\* written it.
C12_Witness ==
    \E r, q \in Reqs :
        /\ r # q /\ req[r].pc = "write" /\ req[q].pc = "write"
        /\ req[r].probes >= 1 /\ req[q].probes >= 1
        /\ req[r].publicShareId # Null
        /\ req[r].publicShareId = req[q].publicShareId
        /\ ~\E e \in EntryIds : /\ entries[e].exists
                                /\ entries[e].publicShareId
                                       = req[r].publicShareId

\* A response body that tells of the collision: it carries the allocator's
\* own message (uniqueness wording and attempts).
Leaks(body) == body = ExhaustedMessage

C14_ExhaustionDistinct ==
    \A r, q \in Reqs :
        (/\ req[r].kind = req[q].kind
         /\ req[r].err = "exhausted"
         /\ req[q].err \notin {"none", "exhausted"}) =>
            <<req[r].status, req[r].errorBody>>
                # <<req[q].status, req[q].errorBody>>

\* C15: every allocator call ends, by returning a token or by failing,
\* given that each of its probes is answered.
C15_AllocatorTerminates ==
    \A r \in Reqs : (req[r].pc = "alloc") ~> (req[r].pc # "alloc")

\* One call has ended in exhaustion and another by returning a token.
C15_Witness ==
    \E r, q \in Reqs :
        /\ req[r].pc = "done" /\ req[r].err = "exhausted"
        /\ req[q].pc = "write" /\ req[q].probes >= 1
        /\ req[q].publicShareId # Null

\* C16: a non-null publicShareId enters a row only as the token the
\* allocator returned to the request that writes the row, and an update
\* that sets isPublic = false leaves the row with publicShareId = null.
C16_OnlyAllocatorTokens ==
    [][/\ \A e \in EntryIds :
            (/\ entries'[e].publicShareId # Null
             /\ entries'[e].publicShareId # entries[e].publicShareId) =>
                \E r \in Reqs :
                    /\ req[r].pc = "write" /\ Steps(r)
                    /\ req[r].probes >= 1 /\ ~req[r].conflict
                    /\ req[r].candidate = entries'[e].publicShareId
                    /\ req[r].publicShareId = entries'[e].publicShareId
                    /\ e = (IF req[r].id = 0 THEN nextId ELSE req[r].id)
       /\ \A r \in Reqs :
            (Commits(r) /\ req[r].isPublic = "false") =>
                /\ entries'[req[r].id].publicShareId = Null
                /\ ~entries'[req[r].id].isPublic]_vars

\* A create has bound its allocator's token to a row, and a notes PATCH
\* that asked for no token has been committed beside a private row.
C16_Witness ==
    \E r, q \in Reqs : \E e, f \in EntryIds :
        /\ req[r].pc = "done" /\ req[r].kind = "entriesPost" /\ req[r].wrote
        /\ req[r].probes >= 1 /\ entries[e].publicShareId = req[r].candidate
        /\ req[q].pc = "done" /\ req[q].kind = "notesPatch" /\ req[q].wrote
        /\ req[q].probes = 0
        /\ entries[f].exists /\ ~entries[f].isPublic
        /\ entries[f].publicShareId = Null

\* C17: on isPublic = true, entries PATCH always calls the allocator and
\* writes its token; notes PATCH does so only when the entry it read had no
\* publicShareId, and otherwise probes nothing and leaves the token as it is.
C17_RoutesDiffer ==
    [][\A r \in Reqs :
         /\ (req[r].kind = "notesPatch" /\ req[r].pc = "alloc") =>
                req[r].existingShare = Null
         /\ (/\ req[r].kind = "entriesPatch" /\ req[r].pc = "write"
             /\ req[r].isPublic = "true") => req[r].probes >= 1
         /\ (Commits(r) /\ req[r].isPublic = "true") =>
                IF req[r].kind = "entriesPatch" \/ req[r].existingShare = Null
                THEN /\ req[r].probes >= 1
                     /\ entries'[req[r].id].publicShareId
                            = req[r].publicShareId
                     /\ req[r].publicShareId = req[r].candidate
                ELSE /\ req[r].probes = 0
                     /\ entries'[req[r].id].publicShareId
                            = entries[req[r].id].publicShareId]_vars

\* Both routes are about to re-publish an entry that they read as public:
\* entries PATCH with a new token, notes PATCH with none.
C17_Witness ==
    \E r, q \in Reqs :
        /\ req[r].kind = "entriesPatch" /\ req[r].pc = "write"
        /\ req[r].isPublic = "true" /\ req[r].existingShare # Null
        /\ req[r].probes >= 1
        /\ req[q].kind = "notesPatch" /\ req[q].pc = "write"
        /\ req[q].isPublic = "true" /\ req[q].existingShare # Null
        /\ req[q].probes = 0

\* C18: the public read returns an entry only if it exists, is public and
\* is not soft-deleted, and answers 404 for a private, soft-deleted or
\* missing entry.
C18_PublicReadGuard ==
    [][Reads =>
         /\ pub'.status = 200 =>
                /\ entries[pub'.entry].exists
                /\ entries[pub'.entry].isPublic
                /\ ~entries[pub'.entry].isDeleted
         /\ (pub'.seg = "id" /\ (\/ ~entries[pub'.n].exists
                                 \/ ~entries[pub'.n].isPublic
                                 \/ entries[pub'.n].isDeleted)) =>
                pub'.status = 404]_vars

\* C19: no update route changes a soft-deleted entry; each answers 404 for
\* it, whether the entry was in the trash when the update read it or was
\* moved there between the update's read and its write.
C19_TrashedUntouched ==
    [][\A r \in Reqs :
         /\ (/\ Free(r) /\ req'[r].kind \in {"entriesPatch", "notesPatch"}
             /\ req'[r].pc \notin {"idle", "done"}) =>
                ~entries[req'[r].id].isDeleted
         /\ (/\ req[r].kind \in {"entriesPatch", "notesPatch"}
             /\ req[r].pc = "write" /\ Steps(r)
             /\ entries[req[r].id].exists
             /\ entries[req[r].id].isDeleted) =>
                entries' = entries /\ req'[r].status = 404]_vars

\* C20: no authenticated read route (list, trash, single entry, bookmarks
\* list) returns to a user a private entry that another user owns, whatever
\* the user has bookmarked.
C20_OwnEntriesOnly ==
    [][resp' # resp =>
         \A e \in resp'.entries :
            entries[e].userId # resp'.userId => entries[e].isPublic]_vars

\* A request takes slot r in this step.
Starts(r) == started' # started /\ CanStart(r)

\* The kinds of request that change or remove a stored entry.
Mutating ==
    {"entriesPatch", "notesPatch", "softDelete", "restore", "permanentDelete"}

\* C21: a mutating request goes past its lookup only when the entry it names
\* is the caller's own; one that is turned away at the lookup is answered 404
\* and changes no entry; and whatever a mutating request writes, it writes
\* to an entry its caller owns.
C21_OwnerOnly ==
    [][\A r \in Reqs :
         /\ (Starts(r) /\ req'[r].kind \in Mutating) =>
               IF req'[r].pc = "done"
               THEN req'[r].status = 404 /\ entries' = entries
               ELSE /\ entries[req'[r].id].exists
                    /\ entries[req'[r].id].userId = req'[r].userId
         /\ (req[r].kind \in Mutating /\ Steps(r)) =>
               \A e \in EntryIds :
                   entries'[e] # entries[e] =>
                       /\ e = req[r].id
                       /\ entries[e].userId = req[r].userId]_vars

\* Three requests ran one after another in the first slot.  Two created
\* entries for different owners; the third, a soft-delete, was answered 404
\* with both entries live, which only a target of another owner explains.
C21_Witness ==
    /\ started = MaxRequests /\ nextId = NumEntries + 1 /\ req[2].pc = "idle"
    /\ req[1].pc = "done" /\ req[1].kind = "softDelete"
    /\ req[1].status = 404
    /\ entries[1].exists /\ entries[2].exists
    /\ entries[1].userId # entries[2].userId
    /\ ~entries[1].isDeleted /\ ~entries[2].isDeleted

\* The handler in slot r is under way and takes a step.
Advances(r) == ~Free(r) /\ Steps(r)

\* Every row keeps its isPublic and publicShareId across the step.
SharingKept ==
    \A e \in EntryIds :
        /\ entries'[e].exists = entries[e].exists
        /\ entries'[e].isPublic = entries[e].isPublic
        /\ entries'[e].publicShareId = entries[e].publicShareId

\* Slot r's request has probed nothing and is not in the allocator.
NoProbe(x) == x.probes = 0 /\ x.pc # "alloc"

\* C22: an update whose body omits isPublic, a soft-delete and a restore
\* leave every row's isPublic and publicShareId as they were and never probe;
\* an update turned away with 404 over its categoryId changes no row and
\* has not probed.
C22_FrameKept ==
    [][\A r \in Reqs :
         /\ (/\ Starts(r)
             /\ \/ req'[r].kind \in {"softDelete", "restore"}
                \/ /\ req'[r].kind \in {"entriesPatch", "notesPatch"}
                   /\ req'[r].isPublic = "undef") =>
                SharingKept /\ NoProbe(req'[r])
         /\ (/\ Advances(r)
             /\ \/ req[r].kind \in {"softDelete", "restore"}
                \/ /\ req[r].kind \in {"entriesPatch", "notesPatch"}
                   /\ req[r].isPublic = "undef") =>
                SharingKept /\ NoProbe(req[r]) /\ NoProbe(req'[r])
         /\ (/\ Advances(r) /\ req[r].pc = "category"
             /\ req[r].cat = "invalid") =>
                /\ req'[r].pc = "done" /\ req'[r].status = 404
                /\ entries' = entries /\ NoProbe(req'[r])]_vars

\* A soft-delete has put a public entry in the trash with its token still
\* bound, and an update without isPublic on that entry is about to write,
\* having probed nothing.
C22_Witness ==
    \E r, q \in Reqs :
        /\ req[r].kind \in {"entriesPatch", "notesPatch"}
        /\ req[r].pc = "write" /\ req[r].isPublic = "undef"
        /\ req[r].probes = 0
        /\ req[q].pc = "done" /\ req[q].kind = "softDelete" /\ req[q].wrote
        /\ Bound(req[r].id) /\ entries[req[r].id].isPublic
        /\ entries[req[r].id].isDeleted

\* C23: a soft-delete succeeds only on a row with isDeleted = false and a
\* restore only on a row with isDeleted = true; a success flips isDeleted and
\* nothing else of the row, so that the pair gives the row back with its
\* isPublic and publicShareId; a request that does not succeed is answered
\* 404 and changes no row.
C23_TrashRoundTrip ==
    [][\A r \in Reqs :
         /\ (Starts(r) /\ req'[r].kind \in {"softDelete", "restore"}
               /\ req'[r].pc = "done") =>
                req'[r].status = 404 /\ entries' = entries
         /\ (Advances(r) /\ req[r].kind \in {"softDelete", "restore"}) =>
                LET id == req[r].id
                    was == req[r].kind = "restore"
                IN IF req'[r].status = 200
                   THEN /\ entries[id].exists
                        /\ entries[id].isDeleted = was
                        /\ entries' = [entries EXCEPT
                                          ![id].isDeleted = ~was]
                   ELSE /\ req'[r].status = 404
                        /\ entries' = entries]_vars

====
